---- MODULE Spec2Model ----
(***************************************************************************)
(* Model of the lambda package: the functional options and newHandler,     *)
(* the invocation adapter built by reflectHandler and read out by          *)
(* handlerFunc.Invoke (lambda/handler.go), and the startup dispatcher      *)
(* start (lambda/entry.go).                                                *)
(*                                                                         *)
(* Bytes are one-character strings, byte slices are sequences of them.     *)
(* The nil error is the string "nil"; a nil byte slice is flagged by the   *)
(* field nilBytes of an invocation result.                                 *)
(***************************************************************************)
EXTENDS Integers, Sequences, FiniteSets, TLC

\* ------------------------------------------------------------------ bounds
MaxOptions == 2      \* options passed to one newHandler call

\* ------------------------------------------------------------- value domains
Nil == "nil"

\* Go strings carried by events and responses: a plain character, and one
\* that SetEscapeHTML(true) escapes.
Strs == {<<"x">>, <<"<">>}

Contexts == {"ctxA", "ctxB"}
CallbackLists == {<<>>, <<"a">>, <<"b">>, <<"a", "b">>}

\* ------------------------------------------------------------------ options
\* handlerOptions without the embedded handlerFunc, which is the variable
\* handlerFunc below.
DefaultOptions ==
    [baseContext              |-> "Background",
     jsonResponseEscapeHTML   |-> FALSE,
     jsonResponseIndentPrefix |-> <<>>,
     jsonResponseIndentValue  |-> <<>>,
     enableSIGTERM            |-> FALSE,
     sigtermCallbacks         |-> <<>>]

\* An Option value: the constructor that made it and the arguments it closed
\* over (the arguments of the other constructors are left at a fixed filler).
MkOption(kind, ctx, esc, prefix, indent, cbs) ==
    [kind |-> kind, ctx |-> ctx, escapeHTML |-> esc,
     prefix |-> prefix, indent |-> indent, callbacks |-> cbs]

WithContext(ctx) == MkOption("WithContext", ctx, FALSE, <<>>, <<>>, <<>>)

WithSetEscapeHTML(escapeHTML) ==
    MkOption("WithSetEscapeHTML", "Background", escapeHTML, <<>>, <<>>, <<>>)

WithSetIndent(prefix, indent) ==
    MkOption("WithSetIndent", "Background", FALSE, prefix, indent, <<>>)

WithEnableSIGTERM(callbacks) ==
    MkOption("WithEnableSIGTERM", "Background", FALSE, <<>>, <<>>, callbacks)

OptionValues ==
    {WithContext(c) : c \in Contexts}
    \cup {WithSetEscapeHTML(b) : b \in BOOLEAN}
    \cup {WithSetIndent(p, i) : p \in {<<>>, <<">">>}, i \in {<<>>, <<" ">>}}
    \cup {WithEnableSIGTERM(l) : l \in CallbackLists}

OptionLists == UNION {[1..n -> OptionValues] : n \in 0..MaxOptions}

\* Variant: the callbacks of a later WithEnableSIGTERM replace the earlier ones.
SigtermOverwrite(old, callbacks) == callbacks

\* The closure an option constructor returns, applied to *handlerOptions.
SigtermAppend(old, callbacks) == old \o callbacks

ApplyWithEnableSIGTERM(o, h) ==
    [h EXCEPT !.sigtermCallbacks = SigtermAppend(h.sigtermCallbacks, o.callbacks),
              !.enableSIGTERM = TRUE]

\* Variant: the indentation strings are appended to instead of set.
ApplyWithSetIndentAppends(o, h) ==
    [h EXCEPT !.jsonResponseIndentPrefix = h.jsonResponseIndentPrefix \o o.prefix,
              !.jsonResponseIndentValue = h.jsonResponseIndentValue \o o.indent]

ApplyWithSetIndent(o, h) ==
    [h EXCEPT !.jsonResponseIndentPrefix = o.prefix,
              !.jsonResponseIndentValue = o.indent]

ApplyOption(o, h) ==
    CASE o.kind = "WithContext" -> [h EXCEPT !.baseContext = o.ctx]
      [] o.kind = "WithSetEscapeHTML" -> [h EXCEPT !.jsonResponseEscapeHTML = o.escapeHTML]
      [] o.kind = "WithSetIndent" -> ApplyWithSetIndent(o, h)
      [] o.kind = "WithEnableSIGTERM" -> ApplyWithEnableSIGTERM(o, h)

\* for _, option := range options { option(h) }
RECURSIVE ApplyOptions(_, _)
ApplyOptions(opts, h) ==
    IF opts = <<>> THEN h
    ELSE ApplyOptions(Tail(opts), ApplyOption(Head(opts), h))

\* ------------------------------------------------------------ encoding/json
\* The values a handler can return: a string, a struct with the one string
\* field Message (README.md), or a channel, which encoding/json cannot marshal.
StringValue(s) == [kind |-> "string", s |-> s]
StructValue(s) == [kind |-> "struct", s |-> s]
ChanValue == [kind |-> "chan", s |-> <<>>]
Responses == {StringValue(s) : s \in Strs} \cup {StructValue(s) : s \in Strs} \cup {ChanValue}
\* The zero value a function returns next to an error.
ZeroResponse == StringValue(<<>>)

Quote == "\""
MessageKey == <<Quote, "M", "e", "s", "s", "a", "g", "e", Quote>>

\* One character of a string literal as the encoder writes it.
EncodeChar(c, escapeHTML) ==
    IF escapeHTML /\ c = "<" THEN <<"\\", "u", "0", "0", "3", "c">> ELSE <<c>>

RECURSIVE EncodeChars(_, _)
EncodeChars(s, escapeHTML) ==
    IF s = <<>> THEN <<>>
    ELSE EncodeChar(Head(s), escapeHTML) \o EncodeChars(Tail(s), escapeHTML)

MarshalString(s, escapeHTML) == <<Quote>> \o EncodeChars(s, escapeHTML) \o <<Quote>>

\* json.Marshal in compact form: the bytes, or an error and no bytes.
Marshal(v, escapeHTML) ==
    CASE v.kind = "string" -> [err |-> Nil, bytes |-> MarshalString(v.s, escapeHTML)]
      [] v.kind = "struct" ->
            [err |-> Nil,
             bytes |-> <<"{">> \o MessageKey \o <<":">> \o MarshalString(v.s, escapeHTML) \o <<"}">>]
      [] v.kind = "chan" -> [err |-> "json: unsupported type", bytes |-> <<>>]

RECURSIVE Repeat(_, _)
Repeat(s, n) == IF n = 0 THEN <<>> ELSE s \o Repeat(s, n - 1)

IndentNewline(prefix, indent, depth) == <<"\n">> \o prefix \o Repeat(indent, depth)

\* json.Indent over compact JSON, byte by byte from position i: a new line
\* (prefix, then depth copies of indent) after an opening brace and before a
\* closing one, a space after a colon, string literals copied untouched.
RECURSIVE IndentFrom(_, _, _, _, _, _, _)
IndentFrom(src, i, prefix, indent, depth, needIndent, inString) ==
    IF i > Len(src) THEN <<>>
    ELSE
      LET c == src[i] IN
      IF inString
        THEN IF c = "\\"
               THEN <<c, src[i + 1]>>
                    \o IndentFrom(src, i + 2, prefix, indent, depth, FALSE, TRUE)
               ELSE <<c>> \o IndentFrom(src, i + 1, prefix, indent, depth, FALSE, c # Quote)
        ELSE
          LET open == needIndent /\ c # "}"
              d    == IF open THEN depth + 1 ELSE depth
              lead == IF open THEN IndentNewline(prefix, indent, d) ELSE <<>>
          IN
          CASE c = "{" ->
                 lead \o <<c>> \o IndentFrom(src, i + 1, prefix, indent, d, TRUE, FALSE)
            [] c = ":" ->
                 lead \o <<c, " ">> \o IndentFrom(src, i + 1, prefix, indent, d, FALSE, FALSE)
            [] c = "}" ->
                 IF needIndent
                   THEN <<c>> \o IndentFrom(src, i + 1, prefix, indent, d, FALSE, FALSE)
                   ELSE IndentNewline(prefix, indent, d - 1) \o <<c>>
                        \o IndentFrom(src, i + 1, prefix, indent, d - 1, FALSE, FALSE)
            [] c = Quote ->
                 lead \o <<c>> \o IndentFrom(src, i + 1, prefix, indent, d, FALSE, TRUE)
            [] OTHER ->
                 lead \o <<c>> \o IndentFrom(src, i + 1, prefix, indent, d, FALSE, FALSE)

\* What one Encoder.Encode call writes for v under the encoder's settings:
\* the marshalled value, indented when SetIndent was given a non-empty
\* prefix or indent, followed by a newline. Nothing is written on an error.
EncoderOutput(v, escapeHTML, prefix, indent) ==
    LET m == Marshal(v, escapeHTML) IN
    IF m.err # Nil THEN <<>>
    ELSE (IF prefix # <<>> \/ indent # <<>>
            THEN IndentFrom(m.bytes, 1, prefix, indent, 0, FALSE, FALSE)
            ELSE m.bytes) \o <<"\n">>

\* EncoderOutput and Marshal's error, tabulated over the values and settings
\* of the model.
IndentArgs == {<<>>, <<">">>, <<" ">>}

EncoderTable ==
    [v \in Responses \cup {ZeroResponse}, e \in BOOLEAN, p \in IndentArgs, i \in IndentArgs |->
        [err |-> Marshal(v, e).err, bytes |-> EncoderOutput(v, e, p, i)]]

\* encoder.Encode(response) on the buffer w.
Encode(w, v, escapeHTML, prefix, indent) ==
    LET m == EncoderTable[v, escapeHTML, prefix, indent] IN
    IF m.err # Nil THEN [err |-> m.err, out |-> w]
    ELSE [err |-> Nil, out |-> w \o m.bytes]

\* Positions i.. of b against the bytes pat: "ok" when they are all there,
\* "eof" when b ends inside a match, "syntax" on the first differing byte.
RECURSIVE MatchAt(_, _, _)
MatchAt(b, i, pat) ==
    IF pat = <<>> THEN "ok"
    ELSE IF i > Len(b) THEN "eof"
    ELSE IF b[i] # Head(pat) THEN "syntax"
    ELSE MatchAt(b, i + 1, Tail(pat))

\* The rest of a string literal whose opening quote precedes position i;
\* acc is the string decoded so far. next is the position after the closing
\* quote.
RECURSIVE ScanString(_, _, _)
ScanString(b, i, acc) ==
    IF i > Len(b) THEN [status |-> "eof", s |-> acc, next |-> i]
    ELSE IF b[i] = Quote THEN [status |-> "ok", s |-> acc, next |-> i + 1]
    ELSE IF b[i] = "\\"
      THEN LET m == MatchAt(b, i, <<"\\", "u", "0", "0", "3", "c">>) IN
           IF m = "ok" THEN ScanString(b, i + 6, Append(acc, "<"))
           ELSE [status |-> m, s |-> acc, next |-> i]
    ELSE IF b[i] = "\n" THEN [status |-> "syntax", s |-> acc, next |-> i]
    ELSE ScanString(b, i + 1, Append(acc, b[i]))

ErrEOF == "EOF"
ErrUnexpectedEOF == "unexpected EOF"
ErrSyntax == "json: invalid character"
ErrUnmarshalType == "json: cannot unmarshal string into Go value of type Request"

DecodeStatusError(status) == IF status = "eof" THEN ErrUnexpectedEOF ELSE ErrSyntax

\* event := new(TIn); decoder.Decode(event) with TIn the struct Request of
\* README.md: the first JSON value of the payload is read, bytes after it are
\* left unread; event keeps its zero value unless an object sets Message.
ZeroEvent == [Message |-> <<>>]

Decode(payload) ==
    IF payload = <<>> THEN [err |-> ErrEOF, event |-> ZeroEvent]
    ELSE IF payload[1] = "{"
      THEN LET head == MatchAt(payload, 2, MessageKey \o <<":", Quote>>) IN
           IF head # "ok" THEN [err |-> DecodeStatusError(head), event |-> ZeroEvent]
           ELSE LET lit == ScanString(payload, Len(MessageKey) + 4, <<>>) IN
                IF lit.status # "ok"
                  THEN [err |-> DecodeStatusError(lit.status), event |-> ZeroEvent]
                ELSE LET close == MatchAt(payload, lit.next, <<"}">>) IN
                     IF close # "ok"
                       THEN [err |-> DecodeStatusError(close), event |-> ZeroEvent]
                       ELSE [err |-> Nil, event |-> [Message |-> lit.s]]
    ELSE IF payload[1] = Quote
      THEN LET lit == ScanString(payload, 2, <<>>) IN
           IF lit.status # "ok"
             THEN [err |-> DecodeStatusError(lit.status), event |-> ZeroEvent]
             ELSE [err |-> ErrUnmarshalType, event |-> ZeroEvent]
    ELSE IF payload[1] = "n"
      THEN LET m == MatchAt(payload, 1, <<"n", "u", "l", "l">>) IN
           IF m = "ok" THEN [err |-> Nil, event |-> ZeroEvent]
           ELSE [err |-> DecodeStatusError(m), event |-> ZeroEvent]
    ELSE [err |-> ErrSyntax, event |-> ZeroEvent]

\* Payloads handed to Invoke: the Request documents, with and without HTML
\* escaping, one followed by further bytes, and documents that do not decode.
Payloads ==
    {Marshal(StructValue(s), e).bytes : s \in Strs, e \in BOOLEAN}
    \cup {Marshal(StructValue(<<"x">>), FALSE).bytes \o <<"\n", "{">>,
          <<"n", "u", "l", "l">>,
          <<>>,
          <<"{">>,
          Marshal(StringValue(<<"x">>), FALSE).bytes}

\* Decode, tabulated over the payloads of the model.
DecodeTable == [p \in Payloads |-> Decode(p)]

\* -------------------------------------------------------------------- state
VARIABLES
    pc,                \* "main": before newHandler; "constructed"; "loop": inside
                       \* a start function; "exit": ended by log.Fatalf;
                       \* "returned": start has returned
    handlerArg,        \* the handler function newHandler was called with
    options,           \* the option list newHandler was called with
    h,                 \* the fields of *handlerOptions
    handlerFunc,       \* h.handlerFunc: the closure reflectHandler returned
    sigtermRegistered, \* the callback lists enableSIGTERM was called with
    out,               \* the jsonOutBuffer the reflectHandler closure owns
    lastIn,            \* context, payload and user function result of the last Invoke
    result,            \* what the last Invoke returned
    steps,             \* what the last Invoke ran, in order
    env,               \* the process environment
    logFatalf,         \* the fatal hook: "log.Fatalf" or a returning "observer"
    startIdx,          \* index in startFunctions of the start function running
    keys,              \* the local keys of start
    loopCalls,         \* the calls of start functions
    loopReturns,       \* what the start functions called returned, in order
    fatalCalls         \* the calls of logFatalf

adapterVars == <<out, lastIn, result, steps>>
startVars == <<env, logFatalf, startIdx, keys, loopCalls, loopReturns, fatalCalls>>
newVars == <<handlerArg, options, h, handlerFunc, sigtermRegistered>>
vars == <<pc, newVars, adapterVars, startVars>>

\* ------------------------------------------------------------------ handler
ErrHandlerNil == "handler is nil"

errorHandler(err) == [kind |-> "errorHandler", err |-> err]

\* The handler function argument of newHandler: nil, or a user function f.
HandlerArgs == {"nil", "f"}

\* Variant: no nil check.
reflectHandlerUnchecked(f) == [kind |-> "reflectHandler", err |-> Nil]

reflectHandler(f) ==
    IF f = "nil" THEN errorHandler(ErrHandlerNil)
    ELSE [kind |-> "reflectHandler", err |-> Nil]

\* What the user function does when called: a response and a nil error, or
\* an error (its other return value, ignored by the adapter, is a zero value).
UserErrors == {"user: error A", "user: error B"}
UserReturns ==
    {[response |-> r, err |-> Nil] : r \in Responses}
    \cup {[response |-> ZeroResponse, err |-> e] : e \in UserErrors}
NotCalled == [response |-> ZeroResponse, err |-> "user function not called"]

\* handlertrace.FromContext(ctx): which of the two callbacks ctx carries.
InvokeContexts == [RequestEvent : BOOLEAN, ResponseEvent : BOOLEAN]

NoInvoke ==
    [ctx |-> [RequestEvent |-> FALSE, ResponseEvent |-> FALSE],
     payload |-> <<>>, ret |-> NotCalled, stale |-> FALSE, invoked |-> FALSE]
NoResult == [nilBytes |-> TRUE, bytes |-> <<>>, err |-> Nil]

\* Variant: the buffer is not reset.
ResetKeeps(buf) == buf

Reset(buf) == <<>>

ErrTruncate == "panic: bytes.Buffer: truncation out of range"

\* Variant: the decode error is dropped.
DecodeFailedIgnored(dec) == FALSE

\* if err := decoder.Decode(event); err != nil
DecodeFailed(dec) == dec.err # Nil

\* Variant: the user function's error is dropped.
UserFailedIgnored(ret) == FALSE

\* response, err := f(ctx, *event); if err != nil
UserFailed(ret) == ret.err # Nil

\* Variant: one empty indentation string is enough to strip.
StripNewlineEither(opts) ==
    opts.jsonResponseIndentValue = <<>> \/ opts.jsonResponseIndentPrefix = <<>>

\* The strip condition of the back-compat rule.
StripNewline(opts) ==
    opts.jsonResponseIndentValue = <<>> /\ opts.jsonResponseIndentPrefix = <<>>

\* The closure reflectHandler returns, called on the buffer buf: the new
\* buffer, whether the io.Reader returned is the buffer, the error, and
\* the steps run. ret is what the user function returns if it is reached.
ReflectHandlerCall(buf, opts, ctx, payload, ret) ==
    LET out0 == Reset(buf)
        dec  == DecodeTable[payload]
        s0   == <<"Reset", "Decode">>
    IN
    IF DecodeFailed(dec)
      THEN [out |-> out0, reader |-> FALSE, err |-> dec.err, steps |-> s0]
    ELSE
      LET s1 == s0 \o (IF ctx.RequestEvent THEN <<"RequestEvent">> ELSE <<>>) \o <<"f">> IN
      IF UserFailed(ret)
        THEN [out |-> out0, reader |-> FALSE, err |-> ret.err, steps |-> s1]
      ELSE
        LET s2  == s1 \o (IF ctx.ResponseEvent THEN <<"ResponseEvent">> ELSE <<>>)
                      \o <<"Encode">>
            enc == Encode(out0, ret.response, opts.jsonResponseEscapeHTML,
                          opts.jsonResponseIndentPrefix, opts.jsonResponseIndentValue)
        IN
        IF enc.err # Nil
          THEN [out |-> enc.out, reader |-> FALSE, err |-> enc.err, steps |-> s2]
        ELSE IF StripNewline(opts)
          THEN IF Len(enc.out) - 1 < 0
                 THEN [out |-> enc.out, reader |-> FALSE, err |-> ErrTruncate,
                       steps |-> s2 \o <<"Truncate">>]
                 ELSE [out |-> SubSeq(enc.out, 1, Len(enc.out) - 1), reader |-> TRUE,
                       err |-> Nil, steps |-> s2 \o <<"Truncate">>]
        ELSE [out |-> enc.out, reader |-> TRUE, err |-> Nil, steps |-> s2]

\* h(ctx, payload) for either kind of handlerFunc.
HandlerFuncCall(hf, buf, opts, ctx, payload, ret) ==
    IF hf.kind = "errorHandler"
      THEN [out |-> buf, reader |-> FALSE, err |-> hf.err, steps |-> <<>>]
      ELSE ReflectHandlerCall(buf, opts, ctx, payload, ret)

\* Whether the user function is reached for this payload.
ReachesUser(hf, payload) == hf.kind = "reflectHandler" /\ DecodeTable[payload].err = Nil

\* handlerFunc.Invoke
Invoke(ctx, payload) ==
    /\ pc = "constructed"
    /\ \E ret \in (IF ReachesUser(handlerFunc, payload) THEN UserReturns ELSE {NotCalled}) :
         \E r \in {HandlerFuncCall(handlerFunc, out, h, ctx, payload, ret)} :
         /\ out' = r.out
         /\ steps' = r.steps
         /\ result' = IF r.err # Nil
                        THEN [nilBytes |-> TRUE, bytes |-> <<>>, err |-> r.err]
                        ELSE [nilBytes |-> FALSE, bytes |-> r.out, err |-> Nil]
         /\ lastIn' = [ctx |-> ctx, payload |-> payload, ret |-> ret,
                       stale |-> out # <<>>, invoked |-> TRUE]
    /\ UNCHANGED <<pc, newVars, startVars>>

\* newHandler(handlerFunc, options...)
NewHandler(f, opts) ==
    /\ pc = "main"
    /\ LET hh == ApplyOptions(opts, DefaultOptions) IN
       /\ h' = hh
       /\ sigtermRegistered' =
            IF hh.enableSIGTERM
              THEN Append(sigtermRegistered, hh.sigtermCallbacks)
              ELSE sigtermRegistered
    /\ handlerFunc' = reflectHandler(f)
    /\ handlerArg' = f
    /\ options' = opts
    /\ pc' = "constructed"
    /\ UNCHANGED <<adapterVars, startVars>>

\* -------------------------------------------------------------------- start
runtimeAPIStartFunction == [env |-> "AWS_LAMBDA_RUNTIME_API", f |-> "startRuntimeAPILoop"]
startFunctions == <<runtimeAPIStartFunction>>

EnvNames == {startFunctions[i].env : i \in 1..Len(startFunctions)}
EnvValues == {"", "127.0.0.1:9001", "localhost:8080"}
FatalHooks == {"log.Fatalf", "observer"}
\* What a start function returns, if it returns.
LoopReturns == {Nil, "runtime api: connection refused"}

FormatValue == "%v"
FormatNotDefined == "expected AWS Lambda environment variables %s are not defined"
NoArg == "-"

\* logFatalf("%v", err)
FatalValue(err) == [format |-> FormatValue, err |-> err, keys |-> <<>>]

\* logFatalf("expected AWS Lambda environment variables %s are not defined", keys)
FatalNotDefined(ks) == [format |-> FormatNotDefined, err |-> NoArg, keys |-> ks]

\* The pointer start is given: the handlerOptions newHandler returned.
HandlerValue == [options |-> h, handlerFunc |-> handlerFunc]

\* Variant: the variable's name is taken for its value.
GetenvName(e, i) == startFunctions[i].env

\* config := os.Getenv(start.env)
Getenv(e, i) == e[startFunctions[i].env]

\* config != ""
Configured(e, i) == Getenv(e, i) # ""

\* Variant: the key is not collected.
AppendKeyDropped(ks, i) == ks

\* keys = append(keys, start.env)
AppendKey(ks, i) == Append(ks, startFunctions[i].env)

\* The range loop of start from index i with the keys collected so far, up to
\* the first start function whose variable is set: its index and the keys
\* before it, or index 0 and all remaining keys when there is none.
RECURSIVE Scan(_, _, _)
Scan(e, i, ks) ==
    IF i > Len(startFunctions) THEN [idx |-> 0, keys |-> ks]
    ELSE IF Configured(e, i) THEN [idx |-> i, keys |-> ks]
    ELSE Scan(e, i + 1, AppendKey(ks, i))

\* The state after fatal hook call number Len(fc): the process is gone
\* under log.Fatalf, and control goes on under an observer.
AfterFatal(hook, next) == IF hook = "log.Fatalf" THEN "exit" ELSE next

\* start from index i of the range loop on, until it calls a start function
\* or returns.
RunStart(e, hook, i, ks, fc) ==
    LET sc == Scan(e, i, ks) IN
    IF sc.idx # 0
      THEN /\ loopCalls' = Append(loopCalls,
                 [f |-> startFunctions[sc.idx].f,
                  envValue |-> Getenv(e, sc.idx),
                  handler |-> HandlerValue])
           /\ startIdx' = sc.idx
           /\ keys' = sc.keys
           /\ fatalCalls' = fc
           /\ pc' = "loop"
      ELSE /\ fatalCalls' = Append(fc, FatalNotDefined(sc.keys))
           /\ keys' = sc.keys
           /\ startIdx' = 0
           /\ pc' = AfterFatal(hook, "returned")
           /\ UNCHANGED loopCalls

\* start(handler), entered with the environment e and the fatal hook in place.
Start(e, hook) ==
    /\ pc = "constructed"
    /\ env' = e
    /\ logFatalf' = hook
    /\ RunStart(e, hook, 1, <<>>, fatalCalls)
    /\ UNCHANGED loopReturns
    /\ UNCHANGED <<newVars, adapterVars>>

\* The start function returns err: start reports it through the fatal hook
\* and, when the hook returns, goes on with the range loop.
LoopReturn(err) ==
    /\ pc = "loop"
    /\ loopReturns' = Append(loopReturns, err)
    /\ LET fc == Append(fatalCalls, FatalValue(err)) IN
       IF logFatalf = "log.Fatalf"
         THEN /\ fatalCalls' = fc
              /\ pc' = "exit"
              /\ UNCHANGED <<startIdx, keys, loopCalls>>
         ELSE RunStart(env, logFatalf, startIdx + 1, AppendKey(keys, startIdx), fc)
    /\ UNCHANGED <<env, logFatalf, newVars, adapterVars>>

\* ----------------------------------------------------------- specifications
InitStart ==
    /\ env = [n \in EnvNames |-> ""]
    /\ logFatalf = "log.Fatalf"
    /\ startIdx = 0
    /\ keys = <<>>
    /\ loopCalls = <<>>
    /\ loopReturns = <<>>
    /\ fatalCalls = <<>>

InitAdapter ==
    /\ out = <<>>
    /\ lastIn = NoInvoke
    /\ result = NoResult
    /\ steps = <<>>

\* The process before main has built the handler.
Init ==
    /\ pc = "main"
    /\ handlerArg = "nil"
    /\ options = <<>>
    /\ h = DefaultOptions
    /\ handlerFunc = errorHandler(Nil)
    /\ sigtermRegistered = <<>>
    /\ InitAdapter
    /\ InitStart

\* Construction and startup: newHandler, then start.
Next ==
    \/ \E f \in HandlerArgs, opts \in OptionLists : NewHandler(f, opts)
    \/ \E e \in [EnvNames -> EnvValues], hook \in FatalHooks : Start(e, hook)
    \/ \E err \in LoopReturns : LoopReturn(err)

Spec == Init /\ [][Next]_vars

\* An adapter as newHandler returns it, for the serialized invocations the
\* control-plane loop or a test makes on it.
InvokeOptionLists ==
    {<<>>,
     <<WithContext("ctxA"), WithEnableSIGTERM(<<"a">>)>>,
     <<WithSetEscapeHTML(TRUE)>>,
     <<WithSetIndent(<<">">>, <<>>)>>,
     <<WithSetIndent(<<>>, <<" ">>)>>,
     <<WithSetIndent(<<">">>, <<" ">>)>>,
     <<WithSetEscapeHTML(TRUE), WithSetIndent(<<">">>, <<" ">>)>>,
     <<WithSetIndent(<<">">>, <<" ">>), WithSetIndent(<<>>, <<>>)>>}

InitInvoke ==
    /\ pc = "constructed"
    /\ \E f \in HandlerArgs, opts \in InvokeOptionLists :
         LET hh == ApplyOptions(opts, DefaultOptions) IN
         /\ handlerArg = f
         /\ options = opts
         /\ h = hh
         /\ handlerFunc = reflectHandler(f)
         /\ sigtermRegistered = IF hh.enableSIGTERM THEN <<hh.sigtermCallbacks>> ELSE <<>>
    /\ InitAdapter
    /\ InitStart

NextInvoke == \E ctx \in InvokeContexts, payload \in Payloads : Invoke(ctx, payload)

SpecInvoke == InitInvoke /\ [][NextInvoke]_vars

\* ------------------------------------------------------------------- claims
Constructed == pc # "main"
Started == pc \in {"loop", "exit", "returned"}
StartEnded == pc \in {"exit", "returned"}
NilResult(err) == [nilBytes |-> TRUE, bytes |-> <<>>, err |-> err]
Ran(step) == \E i \in 1..Len(steps) : steps[i] = step
InvokedAdapter == lastIn.invoked /\ handlerArg # "nil"

\* C1: an adapter built from a nil handler function is built all the same,
\* and every Invoke on it returns nil bytes and the error "handler is nil"
\* without running the decoder, the user function or the encoder.
C1_NilHandlerAlwaysFails ==
    (Constructed /\ handlerArg = "nil") =>
        /\ handlerFunc = [kind |-> "errorHandler", err |-> "handler is nil"]
        /\ lastIn.invoked => /\ result = NilResult("handler is nil")
                             /\ steps = <<>>
                             /\ out = <<>>

C1_Witness ==
    /\ handlerArg = "nil"
    /\ lastIn.invoked
    /\ lastIn.payload = Marshal(StructValue(<<"x">>), FALSE).bytes
    /\ lastIn.ctx.RequestEvent
    /\ h.enableSIGTERM

\* C2: when the payload decodes and the user function returns an error,
\* Invoke returns nil bytes and that very error, neither the response trace
\* nor the encoder runs, and the output buffer is left empty.
C2_UserErrorVerbatim ==
    (InvokedAdapter /\ Decode(lastIn.payload).err = Nil /\ lastIn.ret.err # Nil) =>
        /\ result = NilResult(lastIn.ret.err)
        /\ Ran("f")
        /\ ~Ran("ResponseEvent")
        /\ ~Ran("Encode")
        /\ ~Ran("Truncate")
        /\ out = <<>>

C2_Witness ==
    /\ InvokedAdapter
    /\ Decode(lastIn.payload).err = Nil
    /\ lastIn.ret.err = "user: error B"
    /\ lastIn.ctx.ResponseEvent
    /\ lastIn.stale
    /\ result.err = "user: error B"

\* C3: when the payload does not decode, Invoke returns nil bytes and the
\* decode error; the request trace and the user function are not called and
\* no output is produced.
C3_DecodeErrorStops ==
    (InvokedAdapter /\ Decode(lastIn.payload).err # Nil) =>
        /\ result = NilResult(Decode(lastIn.payload).err)
        /\ steps = <<"Reset", "Decode">>
        /\ out = <<>>

C3_Witness ==
    /\ InvokedAdapter
    /\ lastIn.payload = <<"{">>
    /\ lastIn.ctx.RequestEvent
    /\ lastIn.stale
    /\ result.err = "unexpected EOF"

\* C4: a successful Invoke returns the encoder's output without its one
\* trailing newline when prefix and indent are both empty, and the encoder's
\* output as it is when either is not; the strip removes nothing but that
\* newline and never meets an empty buffer.
EncoderWrote ==
    EncoderOutput(lastIn.ret.response, h.jsonResponseEscapeHTML,
                  h.jsonResponseIndentPrefix, h.jsonResponseIndentValue)

FreshResult ==
    ReflectHandlerCall(<<>>, ApplyOptions(options, DefaultOptions),
                       lastIn.ctx, lastIn.payload, lastIn.ret)

C9_BufferResetEachInvoke ==
    (InvokedAdapter /\ result.err = Nil) =>
        /\ FreshResult.err = Nil
        /\ result.bytes = FreshResult.out
        /\ out = result.bytes

C9_Witness ==
    /\ InvokedAdapter
    /\ result.err = Nil
    /\ lastIn.stale
    /\ result.bytes # <<>>

\* C5 as stated: every option is idempotent: applied twice in succession to
\* an options state it gives the state one application gives, so an option
\* list with an option repeated builds what the list without the repeat does.
Idempotent(o, s) == ApplyOption(o, ApplyOption(o, s)) = ApplyOption(o, s)

Repeats(i) == i \in 1..(Len(options) - 1) /\ options[i] = options[i + 1]

WithoutRepeat(i) == SubSeq(options, 1, i) \o SubSeq(options, i + 2, Len(options))

IdempotentAmong(O) ==
    Constructed =>
        /\ \A o \in O : Idempotent(o, h)
        /\ \A i \in 1..Len(options) :
             (Repeats(i) /\ options[i] \in O) =>
                 h = ApplyOptions(WithoutRepeat(i), DefaultOptions)

C5_EveryOptionIdempotent == IdempotentAmong(OptionValues)

\* C5, amended: WithContext, WithSetEscapeHTML, WithSetIndent and a
\* WithEnableSIGTERM without callbacks are idempotent; a WithEnableSIGTERM
\* with callbacks appends them again at each application.
AppendsNothing(o) == o.kind # "WithEnableSIGTERM" \/ o.callbacks = <<>>

C5_SettersIdempotent ==
    /\ IdempotentAmong({o \in OptionValues : AppendsNothing(o)})
    /\ Constructed =>
         \A o \in OptionValues :
            o.kind = "WithEnableSIGTERM" =>
               /\ ApplyOption(o, ApplyOption(o, h)).sigtermCallbacks
                     = h.sigtermCallbacks \o o.callbacks \o o.callbacks
               /\ ApplyOption(o, ApplyOption(o, h)).enableSIGTERM

C5_Witness ==
    /\ pc = "constructed"
    /\ options = <<WithSetIndent(<<">">>, <<" ">>), WithSetIndent(<<">">>, <<" ">>)>>
    /\ h.jsonResponseIndentPrefix = <<">">>
    /\ h.jsonResponseIndentValue = <<" ">>

\* C6: newHandler registers the shutdown listener once, with the callbacks of
\* all its WithEnableSIGTERM options in option order, and not at all when
\* there is no such option; nothing registers it afterwards.
RECURSIVE AllCallbacks(_)
AllCallbacks(opts) ==
    IF opts = <<>> THEN <<>>
    ELSE (IF Head(opts).kind = "WithEnableSIGTERM" THEN Head(opts).callbacks ELSE <<>>)
         \o AllCallbacks(Tail(opts))

C6_CallbacksAccumulate ==
    /\ ~Constructed => sigtermRegistered = <<>>
    /\ Constructed =>
         IF \E i \in 1..Len(options) : options[i].kind = "WithEnableSIGTERM"
           THEN sigtermRegistered = <<AllCallbacks(options)>>
           ELSE sigtermRegistered = <<>>

C6_Witness ==
    /\ Constructed
    /\ options = <<WithEnableSIGTERM(<<"a">>), WithEnableSIGTERM(<<"b">>)>>
    /\ sigtermRegistered = << <<"a", "b">> >>

\* C7: with AWS_LAMBDA_RUNTIME_API set to V, start calls startRuntimeAPILoop
\* once, with V and the handler it was given, and a return of the loop, with
\* an error or with nil, is followed by logFatalf("%v", <what it returned>).
RuntimeAPI == env["AWS_LAMBDA_RUNTIME_API"]

C7_LoopCalledWithValue ==
    (Started /\ RuntimeAPI # "") =>
        /\ loopCalls = <<[f |-> "startRuntimeAPILoop", envValue |-> RuntimeAPI,
                          handler |-> [options |-> h, handlerFunc |-> handlerFunc]]>>
        /\ Len(loopReturns) <= 1
        /\ loopReturns = <<>> => (pc = "loop" /\ fatalCalls = <<>>)
        /\ loopReturns # <<>> =>
              /\ StartEnded
              /\ fatalCalls # <<>>
              /\ fatalCalls[1] = [format |-> "%v", err |-> loopReturns[1], keys |-> <<>>]

C7_Witness ==
    /\ pc = "exit"
    /\ RuntimeAPI = "localhost:8080"
    /\ loopReturns = <<Nil>>
    /\ Len(loopCalls) = 1
    /\ fatalCalls = <<[format |-> "%v", err |-> Nil, keys |-> <<>>]>>

\* C8: with no recognized variable set, start calls no loop function and
\* calls the fatal hook with the "are not defined" message and the names of
\* all the variables of startFunctions.
CheckedNames == [i \in 1..Len(startFunctions) |-> startFunctions[i].env]

C8_NotDefinedNamesAll ==
    (Started /\ \A n \in EnvNames : env[n] = "") =>
        /\ loopCalls = <<>>
        /\ fatalCalls =
             <<[format |-> "expected AWS Lambda environment variables %s are not defined",
                err |-> NoArg, keys |-> CheckedNames]>>

C8_Witness ==
    /\ pc = "returned"
    /\ logFatalf = "observer"
    /\ RuntimeAPI = ""
    /\ Len(fatalCalls) = 1
    /\ fatalCalls[1].keys = <<"AWS_LAMBDA_RUNTIME_API">>

\* C10: start calls the fatal hook exactly once, also under a hook that
\* returns, and reports "are not defined" only if no recognized variable has
\* a value.
C10_FatalHookOnce ==
    StartEnded =>
        /\ Len(fatalCalls) = 1
        /\ \A i \in 1..Len(fatalCalls) :
              fatalCalls[i].format = FormatNotDefined => \A n \in EnvNames : env[n] = ""

====
